---- MODULE Spec2Model ----
(***************************************************************************)
(* Mini-CyberArk (src/main.go): an HTTP vault over one MongoDB collection. *)
(* POST /create inserts a credential document; GET /retrieve/{username}    *)
(* answers with the stored password and starts a goroutine that sleeps 10  *)
(* seconds and then overwrites the password with a random one.             *)
(*                                                                         *)
(* The model keeps the collection, every request handler with its position *)
(* and its response, every rotation goroutine with its position, and the   *)
(* wall clock.  Handlers and goroutines interleave at their database calls. *)
(***************************************************************************)
EXTENDS Integers, Sequences, FiniteSets, TLC

VARIABLES
    now,       \* wall clock (seconds), read by time.Now()
    coll,      \* credColl: the documents of the collection, in insertion order
    reqs,      \* every request received: its handler's position and its response
    jobs       \* every goroutine started by retrieveCredential, with its position

vars == <<now, coll, reqs, jobs>>

(***************************** bounds **************************************)
MaxReqs == 3        \* requests received over a run
MaxTime == 15       \* the clock stops advancing here
TickStep == 5       \* seconds the clock advances in one step

(************************ program constants ********************************)
Delay == 10                          \* time.Sleep(10 * time.Second)
StatusOK == 200
StatusCreated == 201
StatusBadRequest == 400
StatusNotFound == 404
StatusMethodNotAllowed == 405
StatusConflict == 409
StatusInternalServerError == 500

Users == {"alice", "bob"}
Usernames == Users \cup {""}

\* const charset, length := 12 (generateRandomPassword)
charset == "abcdefghijklmnopqrstuvwxyzABCDEFGHIJKLMNOPQRSTUVWXYZ0123456789!@#$%^&*"
length == 12

\* the values rand.Intn(len(charset)) returns over one call of the generator
RandInts == 0 .. (Len(charset) - 1)
RandDraws ==
    {<<10, 42, 59, 62, 12, 51, 54, 64, 15, 37, 61, 23>>,
     <<45, 17, 56, 65, 22, 30, 60, 68, 1, 39, 53, 2>>}

\* charset[n], Go's zero-based index
CharAt(n) == SubSeq(charset, n + 1, n + 1)

\* a generator whose loop stops one byte short
RECURSIVE FillShort(_, _)
FillShort(d, i) ==
    IF i >= length THEN "" ELSE CharAt(d[i]) \o FillShort(d, i + 1)

\* for i := range b { b[i] = charset[rand.Intn(len(charset))] }, from byte i on
RECURSIVE Fill(_, _)
Fill(d, i) ==
    IF i > length THEN "" ELSE CharAt(d[i]) \o Fill(d, i + 1)

\* string(b) for the draws d
GenPasswords == {Fill(d, 1) : d \in RandDraws}
BadJSON == [username |-> "{", password |-> "{"]

NoTime == 0 - 1     \* the zero time.Time, and "no response yet"
NoCode == 0

\* var cred Credential: the zero value FindOne leaves when nothing decodes
ZeroCredential == [username |-> "", password |-> "", last_rotated |-> NoTime]

(************************** the collection *********************************)
Min(S) == CHOOSE x \in S : \A y \in S : x <= y

Matches(c, un) == {k \in DOMAIN c : c[k].username = un}

\* FindOne with a filter that matches every document
FindOneAny(c, un) ==
    IF c = <<>>
    THEN [err |-> "ErrNoDocuments", cred |-> ZeroCredential]
    ELSE [err |-> "none", cred |-> c[1]]

\* credColl.FindOne(ctx, bson.M{"username": un}).Decode(&cred)
FindOne(c, un) ==
    IF Matches(c, un) = {}
    THEN [err |-> "ErrNoDocuments", cred |-> ZeroCredential]
    ELSE [err |-> "none", cred |-> c[Min(Matches(c, un))]]

\* InsertOne without the unique index uniq_username
InsertOneNoIndex(c, d) == [err |-> "none", coll |-> Append(c, d)]

\* an insert that replaces the document of a taken username (ReplaceOne, upsert)
InsertOneReplace(c, d) ==
    IF Matches(c, d.username) # {}
    THEN [err |-> "none",
          coll |-> [k \in DOMAIN c |-> IF c[k].username = d.username THEN d ELSE c[k]]]
    ELSE [err |-> "none", coll |-> Append(c, d)]

\* credColl.InsertOne(ctx, cred) under the unique index on username
InsertOne(c, d) ==
    IF Matches(c, d.username) # {}
    THEN [err |-> "E11000", coll |-> c]
    ELSE [err |-> "none", coll |-> Append(c, d)]

\* an update with an empty filter (UpdateMany): every document is rewritten
UpdateOneAll(c, un, npw, ut) ==
    [k \in DOMAIN c |-> [c[k] EXCEPT !.password = npw, !.last_rotated = ut]]

\* UpdateOne whose $set leaves last_rotated out
UpdateOnePasswordOnly(c, un, npw, ut) ==
    [k \in DOMAIN c |->
        IF k \in Matches(c, un) /\ k = Min(Matches(c, un))
        THEN [c[k] EXCEPT !.password = npw]
        ELSE c[k]]

\* credColl.UpdateOne(ctx2, bson.M{"username": un}, {"$set": {password, last_rotated}})
UpdateOne(c, un, npw, ut) ==
    IF Matches(c, un) = {}
    THEN c
    ELSE [k \in DOMAIN c |->
            IF k = Min(Matches(c, un))
            THEN [c[k] EXCEPT !.password = npw, !.last_rotated = ut]
            ELSE c[k]]

(***************************** Init ****************************************)
Init ==
    /\ now = 0
    /\ coll = <<>>
    /\ reqs = <<>>
    /\ jobs = <<>>

(*************************** the clock *************************************)
Tick ==
    /\ now + TickStep <= MaxTime
    /\ now' = now + TickStep
    /\ UNCHANGED <<coll, reqs, jobs>>

(************************* createCredential ********************************)
\* a handler that has decoded nothing yet: cred is the zero Credential.
\* un is the username of the request, cred the handler's variable cred,
\* code/rpw/rt the status, password and retrieved_time of the response.
\* A handler that returns before it calls the store leaves its response only.
NewReq(op) ==
    [op |-> op, un |-> "", cred |-> ZeroCredential, pc |-> "done",
     err |-> "none", code |-> NoCode, rpw |-> "", rt |-> NoTime]

\* the handler up to its InsertOne: method check, decode, validation, time.Now()
CreateDecode(method, body) ==
    LET r == NewReq("create") IN
    IF method # "POST"
    THEN [r EXCEPT !.code = StatusMethodNotAllowed]
    ELSE IF body = BadJSON
    THEN [r EXCEPT !.code = StatusBadRequest]
    ELSE IF body.username = "" \/ body.password = ""
    THEN [r EXCEPT !.code = StatusBadRequest]
    ELSE [r EXCEPT !.un = body.username, !.cred.username = body.username,
                   !.cred.password = body.password, !.cred.last_rotated = now,
                   !.pc = "insert"]

ValidBodies ==
    {[username |-> "alice", password |-> "Init@123"],
     [username |-> "alice", password |-> "kQ7!mZ2#pL9x"],
     [username |-> "bob", password |-> "Init@123"]}

\* the requests a client sends to /create: the valid bodies, and one body for
\* each way the handler rejects a request before it reaches the database
CreateInputs ==
    {[method |-> "POST", body |-> b] : b \in ValidBodies}
        \cup {[method |-> "POST", body |-> BadJSON],
              [method |-> "POST", body |-> [username |-> "", password |-> "Init@123"]],
              [method |-> "POST", body |-> [username |-> "alice", password |-> ""]],
              [method |-> "GET", body |-> [username |-> "alice", password |-> "Init@123"]]}

CreateRecv ==
    /\ Len(reqs) < MaxReqs
    /\ \E in \in CreateInputs :
          reqs' = Append(reqs, CreateDecode(in.method, in.body))
    /\ UNCHANGED <<now, coll, jobs>>

\* the handler from the result of its InsertOne to its response
CreateRespond(r, res) ==
    IF res.err = "none"
    THEN [r EXCEPT !.pc = "done", !.code = StatusCreated, !.rpw = r.cred.password]
    ELSE IF res.err = "E11000"
    THEN [r EXCEPT !.pc = "done", !.err = res.err, !.code = StatusConflict]
    ELSE [r EXCEPT !.pc = "done", !.err = res.err, !.code = StatusInternalServerError]

\* a create that also starts a rotation of the record it inserted
CreateInsertRotates(i) ==
    /\ reqs[i].op = "create"
    /\ reqs[i].pc = "insert"
    /\ \E res \in {InsertOne(coll, reqs[i].cred), [err |-> "other", coll |-> coll]} :
          /\ coll' = res.coll
          /\ reqs' = [reqs EXCEPT ![i] = CreateRespond(reqs[i], res)]
          /\ jobs' = IF res.err = "none"
                     THEN Append(jobs, [by |-> i, un |-> reqs[i].un, npw |-> "kQ7!mZ2#pL9x",
                                        pc |-> "sleep", wakeAt |-> now + Delay,
                                        updatedTime |-> NoTime])
                     ELSE jobs
    /\ UNCHANGED now

CreateInsert(i) ==
    /\ reqs[i].op = "create"
    /\ reqs[i].pc = "insert"
    /\ \E res \in {InsertOne(coll, reqs[i].cred), [err |-> "other", coll |-> coll]} :
          /\ coll' = res.coll
          /\ reqs' = [reqs EXCEPT ![i] = CreateRespond(reqs[i], res)]
    /\ UNCHANGED <<now, jobs>>

(************************ retrieveCredential ********************************)
\* a response encoded from cred before FindOne has decoded into it
RetrieveRespondBlank(r, res) ==
    IF res.err = "ErrNoDocuments"
    THEN [r EXCEPT !.err = res.err, !.code = StatusNotFound]
    ELSE IF res.err # "none"
    THEN [r EXCEPT !.err = res.err, !.code = StatusInternalServerError]
    ELSE [r EXCEPT !.pc = "spawn", !.cred = res.cred, !.code = StatusOK,
                   !.rpw = r.cred.password, !.rt = now]

\* a 404 that forgets its return and goes on to start the rotation
RetrieveRespondNoReturn(r, res) ==
    IF res.err = "ErrNoDocuments"
    THEN [r EXCEPT !.pc = "spawn", !.err = res.err, !.code = StatusNotFound]
    ELSE IF res.err # "none"
    THEN [r EXCEPT !.err = res.err, !.code = StatusInternalServerError]
    ELSE [r EXCEPT !.pc = "spawn", !.cred = res.cred, !.code = StatusOK,
                   !.rpw = res.cred.password, !.rt = now]

\* the handler from the result of its FindOne to its response (the goroutine
\* is not started yet)
RetrieveRespond(r, res) ==
    IF res.err = "ErrNoDocuments"
    THEN [r EXCEPT !.err = res.err, !.code = StatusNotFound]
    ELSE IF res.err # "none"
    THEN [r EXCEPT !.err = res.err, !.code = StatusInternalServerError]
    ELSE [r EXCEPT !.pc = "spawn", !.cred = res.cred, !.code = StatusOK,
                   !.rpw = res.cred.password, !.rt = now]

\* the handler up to its response: the path check, FindOne, the encoded answer
RetrieveRead(un, res) ==
    LET r == [NewReq("retrieve") EXCEPT !.un = un] IN
    IF un = ""
    THEN [r EXCEPT !.code = StatusBadRequest]
    ELSE RetrieveRespond(r, res)

RetrieveRecv ==
    /\ Len(reqs) < MaxReqs
    /\ \E un \in Usernames :
       \E res \in {FindOne(coll, un), [err |-> "other", cred |-> ZeroCredential]} :
          reqs' = Append(reqs, RetrieveRead(un, res))
    /\ UNCHANGED <<now, coll, jobs>>

\* generateRandomPassword(): any string the generator can draw
generateRandomPassword == GenPasswords

\* go func(un, npw) {...}(username, newPassword): the goroutine as it starts
NewJob(i, un, npw) ==
    [by |-> i, un |-> un, npw |-> npw, pc |-> "sleep",
     wakeAt |-> now + Delay, updatedTime |-> NoTime]

\* a handler that starts no goroutine while one for the username is still waiting
RetrieveSpawnCoalesce(i) ==
    /\ reqs[i].op = "retrieve"
    /\ reqs[i].pc = "spawn"
    /\ IF \E j \in DOMAIN jobs :
             jobs[j].un = reqs[i].un /\ jobs[j].pc \in {"sleep", "update"}
       THEN jobs' = jobs
       ELSE \E npw \in generateRandomPassword :
               jobs' = Append(jobs, NewJob(i, reqs[i].un, npw))
    /\ reqs' = [reqs EXCEPT ![i].pc = "done"]
    /\ UNCHANGED <<now, coll>>

\* the rest of the handler: draw the new password, start the goroutine, return
RetrieveSpawn(i) ==
    /\ reqs[i].op = "retrieve"
    /\ reqs[i].pc = "spawn"
    /\ \E npw \in generateRandomPassword :
          jobs' = Append(jobs, NewJob(i, reqs[i].un, npw))
    /\ reqs' = [reqs EXCEPT ![i].pc = "done"]
    /\ UNCHANGED <<now, coll>>

(************************ the rotation goroutine ***************************)
\* a goroutine without its time.Sleep
SleptNot(j) == now >= jobs[j].wakeAt - Delay

\* time.Sleep(10 * time.Second) has returned
Slept(j) == now >= jobs[j].wakeAt

\* updatedTime := time.Now().In(istLoc)
RotateWake(j) ==
    /\ jobs[j].pc = "sleep"
    /\ Slept(j)
    /\ jobs' = [jobs EXCEPT ![j].pc = "update", ![j].updatedTime = now]
    /\ UNCHANGED <<now, coll, reqs>>

\* an update conditional on the document still being the one the handler read
RotateUpdateGuarded(j) ==
    /\ jobs[j].pc = "update"
    /\ \/ /\ FindOne(coll, jobs[j].un).cred = reqs[jobs[j].by].cred
          /\ coll' = UpdateOne(coll, jobs[j].un, jobs[j].npw, jobs[j].updatedTime)
          /\ jobs' = [jobs EXCEPT ![j].pc = "rotated"]
       \/ /\ FindOne(coll, jobs[j].un).cred # reqs[jobs[j].by].cred
          /\ coll' = coll
          /\ jobs' = [jobs EXCEPT ![j].pc = "cancelled"]
       \/ /\ coll' = coll
          /\ jobs' = [jobs EXCEPT ![j].pc = "failed"]
    /\ UNCHANGED <<now, reqs>>

\* an update that is tried again after a failure instead of being given up
RotateUpdateRetries(j) ==
    /\ jobs[j].pc = "update"
    /\ \/ /\ coll' = UpdateOne(coll, jobs[j].un, jobs[j].npw, jobs[j].updatedTime)
          /\ jobs' = [jobs EXCEPT ![j].pc = "rotated"]
       \/ /\ coll' = coll
          /\ jobs' = [jobs EXCEPT ![j].pc = "sleep", ![j].wakeAt = now]
    /\ UNCHANGED <<now, reqs>>

\* a goroutine that loops: after its update it sleeps again and updates again
RotateUpdateRearm(j) ==
    /\ jobs[j].pc = "update"
    /\ \/ /\ coll' = UpdateOne(coll, jobs[j].un, jobs[j].npw, jobs[j].updatedTime)
          /\ jobs' = [jobs EXCEPT ![j].pc = "sleep", ![j].wakeAt = now + Delay]
       \/ /\ coll' = coll
          /\ jobs' = [jobs EXCEPT ![j].pc = "failed"]
    /\ UNCHANGED <<now, reqs>>

\* an update whose error is ignored: "rotated" is logged either way
RotateUpdateSilent(j) ==
    /\ jobs[j].pc = "update"
    /\ \/ coll' = UpdateOne(coll, jobs[j].un, jobs[j].npw, jobs[j].updatedTime)
       \/ coll' = coll
    /\ jobs' = [jobs EXCEPT ![j].pc = "rotated"]
    /\ UNCHANGED <<now, reqs>>

\* credColl.UpdateOne(...) and the log line that follows it
RotateUpdate(j) ==
    /\ jobs[j].pc = "update"
    /\ \/ /\ coll' = UpdateOne(coll, jobs[j].un, jobs[j].npw, jobs[j].updatedTime)
          /\ jobs' = [jobs EXCEPT ![j].pc = "rotated"]
       \/ /\ coll' = coll
          /\ jobs' = [jobs EXCEPT ![j].pc = "failed"]
    /\ UNCHANGED <<now, reqs>>

(************************** the process ************************************)
\* a restart under which the waiting rotations are kept and resumed
RestartDurable ==
    /\ reqs' = [i \in DOMAIN reqs |->
                  IF reqs[i].pc = "done" THEN reqs[i] ELSE [reqs[i] EXCEPT !.pc = "killed"]]
    /\ UNCHANGED <<now, coll, jobs>>

\* the process is stopped and main() runs again: the collection and its index
\* are MongoDB's and stay; handlers and goroutines were the process's and go
Restart ==
    /\ reqs' = [i \in DOMAIN reqs |->
                  IF reqs[i].pc = "done" THEN reqs[i] ELSE [reqs[i] EXCEPT !.pc = "killed"]]
    /\ jobs' = [j \in DOMAIN jobs |->
                  IF jobs[j].pc \in {"sleep", "update"}
                  THEN [jobs[j] EXCEPT !.pc = "lost"] ELSE jobs[j]]
    /\ UNCHANGED <<now, coll>>

Next ==
    \/ Tick
    \/ CreateRecv
    \/ \E i \in DOMAIN reqs : CreateInsert(i)
    \/ RetrieveRecv
    \/ \E i \in DOMAIN reqs : RetrieveSpawn(i)
    \/ \E j \in DOMAIN jobs : RotateWake(j)
    \/ \E j \in DOMAIN jobs : RotateUpdate(j)
    \/ Restart

Spec == Init /\ [][Next]_vars

(***************************************************************************)
(* The process kept running and the store accepting every update: no       *)
(* Restart, no failing UpdateOne.  Time passes, a handler that has         *)
(* answered goes on to its go statement, a goroutine whose Sleep is over   *)
(* is scheduled and its UpdateOne returns.                                 *)
(***************************************************************************)
\* UpdateOne returned no error
RotateApply(j) == RotateUpdate(j) /\ jobs'[j].pc = "rotated"

LiveNext ==
    \/ Tick
    \/ CreateRecv
    \/ \E i \in DOMAIN reqs : CreateInsert(i)
    \/ RetrieveRecv
    \/ \E i \in DOMAIN reqs : RetrieveSpawn(i)
    \/ \E j \in DOMAIN jobs : RotateWake(j)
    \/ \E j \in DOMAIN jobs : RotateApply(j)

Fairness ==
    /\ WF_vars(Tick)
    /\ \A i \in 1 .. MaxReqs :
          /\ WF_vars(i \in DOMAIN reqs /\ RetrieveSpawn(i))
          /\ WF_vars(i \in DOMAIN jobs /\ RotateWake(i))
          /\ WF_vars(i \in DOMAIN jobs /\ RotateApply(i))

LiveSpec == Init /\ [][LiveNext]_vars /\ Fairness

(***************************************************************************)
(* What the properties below speak of.                                     *)
(***************************************************************************)
DocsOf(c, un) == {c[k] : k \in {n \in DOMAIN c : c[n].username = un}}
PasswordsOf(c, un) == {d.password : d \in DocsOf(c, un)}

Created(un) ==
    {i \in DOMAIN reqs : reqs[i].op = "create" /\ reqs[i].un = un
                         /\ reqs[i].code = StatusCreated}
Retrieved(un) ==
    {i \in DOMAIN reqs : reqs[i].op = "retrieve" /\ reqs[i].un = un
                         /\ reqs[i].code = StatusOK}
JobsOf(i) == {j \in DOMAIN jobs : jobs[j].by = i}
Outstanding(un) ==
    {j \in DOMAIN jobs : jobs[j].un = un /\ jobs[j].pc \in {"sleep", "update"}}
Rotated(un) == {j \in DOMAIN jobs : jobs[j].un = un /\ jobs[j].pc = "rotated"}

\* the step receives request i
Received(i) == i \in DOMAIN reqs' /\ i \notin DOMAIN reqs
\* the step is job j's UpdateOne, and the store applied it
Applies(j) == jobs[j].pc = "update" /\ jobs'[j].pc = "rotated"
\* two successful retrieves of one username, the second within the first's delay
InWindow(i1, i2) ==
    /\ i1 < i2
    /\ \E un \in Users : i1 \in Retrieved(un) /\ i2 \in Retrieved(un)
    /\ reqs[i2].rt - reqs[i1].rt < Delay
HasVersion(d, v) == "version" \in DOMAIN d /\ d["version"] = v

(***************************************************************************)
(* C1: a successful retrieve answers with exactly the password the         *)
(* collection held for the username at the handler's one read; its own     *)
(* rotation does not exist yet when the answer is fixed, no write happens  *)
(* in that step, and no later write changes the answer.                    *)
(***************************************************************************)
C1_RetrieveReturnsStoredPassword ==
    [][/\ \A i \in DOMAIN reqs' :
             (Received(i) /\ reqs'[i].op = "retrieve" /\ reqs'[i].code = StatusOK) =>
                /\ PasswordsOf(coll, reqs'[i].un) = {reqs'[i].rpw}
                /\ coll' = coll
                /\ \A j \in DOMAIN jobs' : jobs'[j].by # i
       /\ \A i \in DOMAIN reqs :
             reqs[i].code = StatusOK =>
                reqs'[i].code = StatusOK /\ reqs'[i].rpw = reqs[i].rpw]_vars

\* a retrieve answered with the old password, and its rotation has since
\* replaced it by a different one
C1_Witness ==
    \E un \in Users : \E i \in Retrieved(un) : \E j \in JobsOf(i) :
        /\ jobs[j].pc = "rotated"
        /\ jobs[j].npw # reqs[i].rpw
        /\ PasswordsOf(coll, un) = {jobs[j].npw}

(***************************************************************************)
(* C2 as stated: of two retrieves of a username within the delay window at *)
(* most one rotation is applied, and a rotation's write is applied only to *)
(* the document its retrieve read.                                         *)
(***************************************************************************)
C2_AtMostOneRotationApplied ==
    [][/\ \A i1 \in DOMAIN reqs' : \A i2 \in DOMAIN reqs' :
             InWindow(i1, i2)' =>
                \A j1 \in JobsOf(i1)' : \A j2 \in JobsOf(i2)' :
                    ~(jobs'[j1].pc = "rotated" /\ jobs'[j2].pc = "rotated")
       /\ \A j \in DOMAIN jobs :
             Applies(j) => DocsOf(coll, jobs[j].un) = {reqs[jobs[j].by].cred}]_vars

(***************************************************************************)
(* C2 amended: every rotation whose UpdateOne the store applies overwrites *)
(* the document unconditionally, whatever happened to it since the         *)
(* retrieve: the goroutine ends rotated, failed (store error) or lost      *)
(* (restart), never cancelled, and after its write the document holds its  *)
(* password and its updatedTime.                                           *)
(***************************************************************************)
C2_RotationsApplyUnconditionally ==
    [][\A j \in DOMAIN jobs :
          (jobs[j].pc = "update" /\ jobs'[j].pc # "update") =>
             /\ jobs'[j].pc \in {"rotated", "failed", "lost"}
             /\ jobs'[j].pc = "rotated" =>
                   DocsOf(coll', jobs[j].un) =
                      {[username |-> jobs[j].un, password |-> jobs[j].npw,
                        last_rotated |-> jobs[j].updatedTime]}]_vars

\* two retrieves within the window, both rotations applied, the record left
\* with a password that differs from the first rotation's
C2_Witness ==
    \E i1 \in DOMAIN reqs : \E i2 \in DOMAIN reqs :
        /\ InWindow(i1, i2)
        /\ \E j1 \in JobsOf(i1) : \E j2 \in JobsOf(i2) :
              /\ jobs[j1].pc = "rotated" /\ jobs[j2].pc = "rotated"
              /\ jobs[j1].npw # jobs[j2].npw
              /\ PasswordsOf(coll, reqs[i1].un) = {jobs[j2].npw}

(***************************************************************************)
(* C3 as stated: at most one rotation is outstanding for a username.       *)
(***************************************************************************)
C3_AtMostOneOutstanding ==
    \A un \in Users : Cardinality(Outstanding(un)) <= 1

(***************************************************************************)
(* C3 amended: every successful retrieve whose handler has returned        *)
(* started exactly one rotation goroutine of its own, for its username,    *)
(* whether or not another was outstanding; a handler that has not reached  *)
(* its go statement started none.                                          *)
(***************************************************************************)
C3_OneRotationPerRetrieve ==
    /\ \A i \in DOMAIN reqs :
          /\ (reqs[i].op = "retrieve" /\ reqs[i].code = StatusOK /\ reqs[i].pc = "done")
                => /\ Cardinality(JobsOf(i)) = 1
                   /\ \A j \in JobsOf(i) : jobs[j].un = reqs[i].un
          /\ reqs[i].pc # "done" => JobsOf(i) = {}
    /\ \A j \in DOMAIN jobs : jobs[j].by \in DOMAIN reqs

\* two rotations outstanding for one username at once
C3_Witness ==
    \E un \in Users : Cardinality(Outstanding(un)) = 2

(***************************************************************************)
(* C4 as stated: create, retrieve, the rotation applied, nothing else on   *)
(* the username; then a second retrieve returns a different password, the  *)
(* record's version is 2 and lastRotated is the rotation's time.           *)
(***************************************************************************)
QuietRotation(un, i1, j) ==
    /\ i1 \in Retrieved(un)
    /\ {i \in DOMAIN reqs : reqs[i].un = un} = Created(un) \cup {i1}
    /\ Cardinality(Created(un)) = 1
    /\ {k \in DOMAIN jobs : jobs[k].un = un} = {j}
    /\ jobs[j].by = i1
    /\ jobs[j].pc = "rotated"

C4_SecondRetrieveDiffers ==
    [][\A i2 \in DOMAIN reqs' \ DOMAIN reqs :
       \A un \in Users : \A i1 \in DOMAIN reqs : \A j \in DOMAIN jobs :
             (reqs'[i2].op = "retrieve" /\ reqs'[i2].un = un
                 /\ reqs'[i2].code = StatusOK /\ QuietRotation(un, i1, j)) =>
                /\ reqs'[i2].rpw # reqs[i1].rpw
                /\ \A d \in DocsOf(coll', un) :
                      HasVersion(d, 2) /\ d.last_rotated = jobs[j].updatedTime]_vars

(***************************************************************************)
(* C4 amended: in that case the second retrieve returns the password the   *)
(* rotation drew, which is not guaranteed to differ from the first; the    *)
(* record has no version field; last_rotated is the time the goroutine     *)
(* read after its sleep, at least Delay after the first retrieve.          *)
(***************************************************************************)
C4_SecondRetrieveReturnsRotated ==
    [][\A i2 \in DOMAIN reqs' \ DOMAIN reqs :
       \A un \in Users : \A i1 \in DOMAIN reqs : \A j \in DOMAIN jobs :
             (reqs'[i2].op = "retrieve" /\ reqs'[i2].un = un
                 /\ reqs'[i2].code = StatusOK /\ QuietRotation(un, i1, j)) =>
                /\ reqs'[i2].rpw = jobs[j].npw
                /\ \A d \in DocsOf(coll', un) :
                      /\ "version" \notin DOMAIN d
                      /\ d.last_rotated = jobs[j].updatedTime
                      /\ d.last_rotated >= reqs[i1].rt + Delay]_vars

\* the case has happened: the second retrieve came after the one rotation
C4_Witness ==
    \E un \in Users : \E i1 \in Retrieved(un) : \E i2 \in Retrieved(un) :
        /\ i1 < i2
        /\ {i \in DOMAIN reqs : reqs[i].un = un} = Created(un) \cup {i1, i2}
        /\ \E j \in JobsOf(i1) :
              /\ jobs[j].pc = "rotated"
              /\ Rotated(un) = {j}
              /\ reqs[i2].cred.last_rotated = jobs[j].updatedTime
              /\ reqs[i2].rpw = jobs[j].npw
              /\ reqs[i2].rpw # reqs[i1].rpw

(***************************************************************************)
(* C5 as stated: a rotation that is scheduled and not finished is still    *)
(* there after every step, a restart of the process included.              *)
(***************************************************************************)
C5_PendingRotationSurvives ==
    [][\A j \in DOMAIN jobs :
          jobs[j].pc \in {"sleep", "update"} =>
             jobs'[j].pc \in {"sleep", "update", "rotated", "failed"}]_vars

(***************************************************************************)
(* C5 amended: a restart loses every rotation that was waiting: after it   *)
(* none is outstanding, the collection is as it was, and a lost rotation   *)
(* stays lost, so it is never applied.                                     *)
(***************************************************************************)
Restarted ==
    \/ \E i \in DOMAIN reqs : reqs[i].pc # "killed" /\ reqs'[i].pc = "killed"
    \/ \E j \in DOMAIN jobs : jobs[j].pc # "lost" /\ jobs'[j].pc = "lost"

C5_RestartLosesPendingRotations ==
    [][/\ Restarted =>
             /\ \A j \in DOMAIN jobs' : jobs'[j].pc \notin {"sleep", "update"}
             /\ \A i \in DOMAIN reqs' : reqs'[i].pc \in {"done", "killed"}
             /\ coll' = coll
       /\ \A j \in DOMAIN jobs : jobs[j].pc = "lost" => jobs'[j] = jobs[j]]_vars

\* a rotation was lost, and the record still holds the password that was
\* handed out, with the clock past the time the rotation was due
C5_Witness ==
    \E j \in DOMAIN jobs :
        /\ jobs[j].pc = "lost"
        /\ now >= jobs[j].wakeAt
        /\ Outstanding(jobs[j].un) = {}
        /\ PasswordsOf(coll, jobs[j].un) = {reqs[jobs[j].by].rpw}
        /\ jobs[j].npw # reqs[jobs[j].by].rpw

(***************************************************************************)
(* C6: a create of a username that exists leaves the collection as it was  *)
(* and never answers 201; when the store answers the insert, the answer is *)
(* 409, whatever password the request carried.                             *)
(***************************************************************************)
C6_DuplicateCreateConflicts ==
    [][\A i \in DOMAIN reqs :
          (reqs[i].pc = "insert" /\ reqs'[i].pc = "done"
              /\ DocsOf(coll, reqs[i].un) # {}) =>
             /\ coll' = coll
             /\ reqs'[i].code # StatusCreated
             /\ reqs'[i].err # "other" => reqs'[i].code = StatusConflict]_vars

\* a create answered 409 that carried another password than the record's
C6_Witness ==
    \E un \in Users : \E w \in Created(un) : \E i \in DOMAIN reqs :
        /\ w < i
        /\ reqs[i].op = "create" /\ reqs[i].un = un
        /\ reqs[i].code = StatusConflict
        /\ reqs[i].cred.password # reqs[w].cred.password
        /\ DocsOf(coll, un) = {reqs[w].cred}

(***************************************************************************)
(* C7 as stated: of the creates of a username that the store answered,     *)
(* exactly one got 201 and the others 409; the collection holds at most    *)
(* one document per username, and its password is the one the 201 create   *)
(* supplied.                                                               *)
(***************************************************************************)
Answered(un) ==
    {i \in DOMAIN reqs : reqs[i].op = "create" /\ reqs[i].un = un
                         /\ reqs[i].pc = "done" /\ reqs[i].err # "other"
                         /\ reqs[i].code # StatusBadRequest}

C7_OneCreateWinsPasswordKept ==
    \A un \in Users :
        /\ Answered(un) # {} => Cardinality(Created(un)) = 1
        /\ \A i \in Answered(un) \ Created(un) : reqs[i].code = StatusConflict
        /\ Cardinality({k \in DOMAIN coll : coll[k].username = un}) <= 1
        /\ \A d \in DocsOf(coll, un) :
              \E w \in Created(un) : d.password = reqs[w].cred.password

(***************************************************************************)
(* C7 amended: the same, except that the document's password is the one    *)
(* the 201 create supplied only until a rotation is applied to it; from    *)
(* then on it is the password of a rotation that was applied.              *)
(***************************************************************************)
C7_OneCreateWins ==
    \A un \in Users :
        /\ Answered(un) # {} => Cardinality(Created(un)) = 1
        /\ \A i \in Answered(un) \ Created(un) : reqs[i].code = StatusConflict
        /\ Cardinality({k \in DOMAIN coll : coll[k].username = un}) <= 1
        /\ \A d \in DocsOf(coll, un) :
              IF Rotated(un) = {}
              THEN \E w \in Created(un) : d = reqs[w].cred
              ELSE \E j \in Rotated(un) : d.password = jobs[j].npw

\* two creates of one username were in flight together; the one received
\* first lost
C7_Witness ==
    \E un \in Users : \E w \in Created(un) : \E i \in Answered(un) :
        /\ i < w
        /\ reqs[i].code = StatusConflict
        /\ reqs[i].cred.password # reqs[w].cred.password
        /\ DocsOf(coll, un) = {reqs[w].cred}

(***************************************************************************)
(* C8 as stated: while no rotation has been applied to a created username, *)
(* its record has version 1 and every retrieve returned the password the   *)
(* create supplied.                                                        *)
(***************************************************************************)
C8_RoundTripVersionOne ==
    \A un \in Users : \A c \in Created(un) :
        Rotated(un) = {} =>
            /\ \A d \in DocsOf(coll, un) :
                  HasVersion(d, 1) /\ d.password = reqs[c].cred.password
            /\ \A i \in Retrieved(un) : reqs[i].rpw = reqs[c].cred.password

(***************************************************************************)
(* C8 amended: the record carries no version field; while no rotation has  *)
(* been applied to a created username, the record holds, and every         *)
(* retrieve returned, exactly the password the create supplied.            *)
(***************************************************************************)
C8_RoundTrip ==
    \A un \in Users : \A c \in Created(un) :
        Rotated(un) = {} =>
            /\ DocsOf(coll, un) # {}
            /\ \A d \in DocsOf(coll, un) :
                  "version" \notin DOMAIN d /\ d.password = reqs[c].cred.password
            /\ \A i \in Retrieved(un) : reqs[i].rpw = reqs[c].cred.password

\* both usernames created with different passwords, and one retrieved
C8_Witness ==
    \E un \in Users : \E other \in Users \ {un} :
    \E c \in Created(un) : \E o \in Created(other) : \E i \in Retrieved(un) :
        /\ o < c
        /\ reqs[o].cred.password # reqs[c].cred.password
        /\ Rotated(un) = {}
        /\ reqs[i].rpw = reqs[c].cred.password

(***************************************************************************)
(* C9: the response of a retrieve is written, and its handler has          *)
(* returned, while its goroutine still sleeps; the goroutine reads its     *)
(* update time and writes no earlier than Delay after the response.        *)
(***************************************************************************)
C9_ResponseBeforeDelayedWrite ==
    \A j \in DOMAIN jobs :
        LET r == reqs[jobs[j].by] IN
        /\ r.code = StatusOK /\ r.pc = "done" /\ r.rt # NoTime
        /\ jobs[j].wakeAt >= r.rt + Delay
        /\ jobs[j].pc \in {"update", "rotated", "failed"} =>
              /\ jobs[j].updatedTime >= r.rt + Delay
              /\ now >= r.rt + Delay
        /\ jobs[j].pc = "sleep" => DocsOf(coll, jobs[j].un) # {}

\* a handler returned with its rotation still asleep and the clock short of
\* the delay, the record still holding the password it returned
C9_Witness ==
    \E j \in DOMAIN jobs :
        /\ jobs[j].pc = "sleep"
        /\ now < jobs[j].wakeAt
        /\ reqs[jobs[j].by].pc = "done"
        /\ PasswordsOf(coll, jobs[j].un) = {reqs[jobs[j].by].rpw}
        /\ jobs[j].npw # reqs[jobs[j].by].rpw

(***************************************************************************)
(* C10: a retrieve of a username without a record, answered by the store,  *)
(* gets 404, its handler ends there and the collection is unchanged; no    *)
(* goroutine ever belongs to a request that was not answered 200, and      *)
(* every document was inserted by a create answered 201.                   *)
(***************************************************************************)
C10_RetrieveUnknownNotFound ==
    [][/\ \A i \in DOMAIN reqs' :
             (Received(i) /\ reqs'[i].op = "retrieve" /\ reqs'[i].un # ""
                 /\ DocsOf(coll, reqs'[i].un) = {} /\ reqs'[i].err # "other") =>
                /\ reqs'[i].code = StatusNotFound
                /\ reqs'[i].pc = "done"
                /\ coll' = coll /\ jobs' = jobs
       /\ \A i \in DOMAIN reqs :
             reqs[i].code = StatusNotFound => reqs'[i] = reqs[i]
       /\ \A j \in DOMAIN jobs' : reqs'[jobs'[j].by].code = StatusOK
       /\ \A k \in DOMAIN coll' :
             \E c \in DOMAIN reqs' :
                /\ reqs'[c].op = "create" /\ reqs'[c].code = StatusCreated
                /\ reqs'[c].un = coll'[k].username]_vars

\* a retrieve was answered 404, and the username was created afterwards
C10_Witness ==
    \E un \in Users : \E i \in DOMAIN reqs : \E c \in Created(un) :
        /\ reqs[i].op = "retrieve" /\ reqs[i].un = un
        /\ reqs[i].code = StatusNotFound
        /\ i < c
        /\ \A j \in DOMAIN jobs : jobs[j].by # i

(***************************************************************************)
(* C11: createCredential starts no rotation: no step of a create handler   *)
(* changes the goroutines, and as long as only creates have been received  *)
(* no goroutine exists and every record is exactly the document its 201    *)
(* create stored, however far the clock has advanced.                      *)
(***************************************************************************)
OnlyCreates == \A i \in DOMAIN reqs : reqs[i].op = "create"

C11_CreateSchedulesNoRotation ==
    /\ OnlyCreates =>
          /\ jobs = <<>>
          /\ \A k \in DOMAIN coll :
                \E c \in Created(coll[k].username) : coll[k] = reqs[c].cred
    /\ \A j \in DOMAIN jobs : reqs[jobs[j].by].op = "retrieve"

\* only creates were received, one answered 201 and one 409, and the clock
\* is past the delay with the record as created
C11_Witness ==
    /\ OnlyCreates
    /\ now >= Delay
    /\ \E un \in Users : \E c \in Created(un) : \E i \in DOMAIN reqs :
          /\ reqs[i].un = un /\ reqs[i].code = StatusConflict
          /\ reqs[c].cred.last_rotated = 0
          /\ DocsOf(coll, un) = {reqs[c].cred}

(***************************************************************************)
(* C12 as stated: every record carries a version counter that is 1 when    *)
(* the record is created, never decreases, and grows by exactly 1 with     *)
(* every change of the password.                                           *)
(***************************************************************************)
C12_VersionCounter ==
    [][\A k \in DOMAIN coll' :
          /\ "version" \in DOMAIN coll'[k]
          /\ k \notin DOMAIN coll => coll'[k]["version"] = 1
          /\ k \in DOMAIN coll =>
                coll'[k]["version"] =
                   IF coll'[k].password # coll[k].password
                   THEN coll[k]["version"] + 1 ELSE coll[k]["version"]]_vars

(***************************************************************************)
(* C12 amended: a record carries no version counter (its fields are        *)
(* username, password and last_rotated); a record changes only by the      *)
(* applied UpdateOne of a rotation for its username, and after every       *)
(* applied UpdateOne the record holds that rotation's password: the        *)
(* current password is the value of the write committed last.              *)
(***************************************************************************)
C12_LastCommittedWriteIsCurrent ==
    [][/\ \A k \in DOMAIN coll' :
             /\ DOMAIN coll'[k] = {"username", "password", "last_rotated"}
             /\ (k \in DOMAIN coll /\ coll'[k] # coll[k]) =>
                   \E j \in DOMAIN jobs :
                      /\ Applies(j)
                      /\ jobs[j].un = coll[k].username
                      /\ coll'[k].password = jobs[j].npw
       /\ \A j \in DOMAIN jobs :
             Applies(j) => PasswordsOf(coll', jobs[j].un) = {jobs[j].npw}]_vars

\* a record that has been rewritten by a rotation and no longer holds the
\* password it was created with
C12_Witness ==
    \E un \in Users : \E c \in Created(un) : \E j \in Rotated(un) :
        /\ PasswordsOf(coll, un) = {jobs[j].npw}
        /\ jobs[j].npw # reqs[c].cred.password
        /\ \A d \in DocsOf(coll, un) : d.last_rotated > reqs[c].cred.last_rotated

(***************************************************************************)
(* C13: a rotation runs at most once: a goroutine that has finished        *)
(* (rotated, failed or lost) never moves again, a record is rewritten only *)
(* in the one step in which exactly one goroutine's UpdateOne is applied,  *)
(* every goroutine belongs to one successful retrieve of its own, and so   *)
(* the rotation writes to a username never outnumber its successful        *)
(* retrieves.                                                              *)
(***************************************************************************)
C13_RotationAtMostOnce ==
    [][/\ \A j \in DOMAIN jobs :
             jobs[j].pc \in {"rotated", "failed", "lost"} => jobs'[j] = jobs[j]
       /\ (\E k \in DOMAIN coll : coll'[k] # coll[k]) =>
             Cardinality({j \in DOMAIN jobs : Applies(j)}) = 1
       /\ \A i \in DOMAIN reqs' : Cardinality(JobsOf(i)') <= 1
       /\ \A un \in Users :
             Cardinality(Rotated(un)') <= Cardinality(Retrieved(un)')]_vars

\* every retrieve of a username has had its one write, none is left to run,
\* and the clock has moved on since the last of them
C13_Witness ==
    \E un \in Users :
        /\ Cardinality(Retrieved(un)) = 2
        /\ Cardinality(Rotated(un)) = 2
        /\ \A j \in Rotated(un) : now > jobs[j].updatedTime

(***************************************************************************)
(* C15 as stated: a rotation whose store update fails is retried; its      *)
(* first failed attempt does not end it Failed.                            *)
(***************************************************************************)
C15_FailedUpdateIsRetried ==
    [][\A j \in DOMAIN jobs :
          jobs[j].pc = "update" => jobs'[j].pc # "failed"]_vars

(***************************************************************************)
(* C15 amended: a rotation makes one attempt: when its UpdateOne fails the *)
(* goroutine logs the failure and ends failed at once, the collection      *)
(* untouched; it never goes back to sleep or to another attempt, and a     *)
(* failed rotation stays failed.  (The position "failed" is the log line   *)
(* "Delayed update failed for username ...".)                              *)
(***************************************************************************)
C15_FailedUpdateNotRetried ==
    [][\A j \in DOMAIN jobs :
          /\ jobs[j].pc = "update" =>
                jobs'[j].pc \in {"update", "rotated", "failed", "lost"}
          /\ (jobs[j].pc = "update" /\ jobs'[j].pc = "failed") =>
                /\ coll' = coll
                /\ jobs'[j] = [jobs[j] EXCEPT !.pc = "failed"]
          /\ jobs[j].pc = "failed" => jobs'[j] = jobs[j] /\ ~Applies(j)]_vars

\* a rotation failed on its only attempt; the clock has moved on, nothing is
\* outstanding, and the record still holds the password that was handed out
C15_Witness ==
    \E j \in DOMAIN jobs :
        /\ jobs[j].pc = "failed"
        /\ now > jobs[j].updatedTime
        /\ Outstanding(jobs[j].un) = {} /\ Rotated(jobs[j].un) = {}
        /\ PasswordsOf(coll, jobs[j].un) = {reqs[jobs[j].by].rpw}

(***************************************************************************)
(* C16: no step removes a record or changes a record's username; a step    *)
(* that applies a rotation leaves the number of records and every record   *)
(* of another username as they were, and changes nothing but password and  *)
(* last_rotated in the record of its own username; a record is added only  *)
(* in the step in which a create is answered 201, and it is that create's. *)
(***************************************************************************)
C16_RotationTouchesOnlyItsRecord ==
    [][/\ Len(coll') >= Len(coll)
       /\ \A k \in DOMAIN coll : coll'[k].username = coll[k].username
       /\ \A j \in DOMAIN jobs :
             Applies(j) =>
                /\ Len(coll') = Len(coll)
                /\ \A k \in DOMAIN coll :
                      coll[k].username # jobs[j].un => coll'[k] = coll[k]
                /\ \A k \in DOMAIN coll :
                      coll[k].username = jobs[j].un =>
                         coll'[k] = [coll[k] EXCEPT !.password = jobs[j].npw,
                                                    !.last_rotated = jobs[j].updatedTime]
       /\ jobs' # jobs => Len(coll') = Len(coll)
       /\ \A k \in DOMAIN coll' \ DOMAIN coll :
             \E i \in DOMAIN reqs :
                /\ reqs[i].op = "create" /\ reqs[i].pc = "insert"
                /\ reqs'[i].code = StatusCreated
                /\ coll'[k] = reqs[i].cred]_vars

\* both usernames have a record; one has been rotated, the other is still
\* the document its create stored
C16_Witness ==
    \E un \in Users : \E other \in Users \ {un} :
    \E j \in Rotated(un) : \E o \in Created(other) :
        /\ PasswordsOf(coll, un) = {jobs[j].npw}
        /\ DocsOf(coll, other) = {reqs[o].cred}
        /\ reqs[o].cred.password # jobs[j].npw
        /\ Len(coll) = 2

(***************************************************************************)
(* C17: every password a rotation carries, and so every password a         *)
(* rotation has written, is the generator's: exactly 12 characters, each   *)
(* one of charset, never empty; a record that a rotation has been applied  *)
(* to holds the password of such a rotation, not one a caller supplied.    *)
(***************************************************************************)
Chars == {SubSeq(charset, n, n) : n \in 1 .. Len(charset)}
WellFormed(p) ==
    /\ Len(p) = 12
    /\ \A n \in 1 .. Len(p) : SubSeq(p, n, n) \in Chars

C17_RotationWritesGeneratedPassword ==
    /\ Cardinality(Chars) = 70
    /\ \A j \in DOMAIN jobs : jobs[j].npw # "" /\ WellFormed(jobs[j].npw)
    /\ \A k \in DOMAIN coll :
          Rotated(coll[k].username) # {} =>
             /\ WellFormed(coll[k].password)
             /\ \E j \in Rotated(coll[k].username) : coll[k].password = jobs[j].npw

\* a record created with a caller's 8-character password now holds a
\* rotation's 12-character one
C17_Witness ==
    \E un \in Users : \E c \in Created(un) : \E j \in Rotated(un) :
        /\ ~WellFormed(reqs[c].cred.password)
        /\ reqs[jobs[j].by].rpw = reqs[c].cred.password
        /\ PasswordsOf(coll, un) = {jobs[j].npw}
        /\ WellFormed(jobs[j].npw)

(***************************************************************************)
(* C14: while the process keeps running and the store accepts the update,  *)
(* every retrieve answered 200 is followed by its rotation's write.  A     *)
(* state that owes a rotation (an answered retrieve whose goroutine is not *)
(* started yet, or is started with its Sleep ending within the clock's     *)
(* range and its write not done) leads to a state that owes none; and the  *)
(* write, when it is done, leaves the username's record holding that       *)
(* rotation's password and its updatedTime as last_rotated.                *)
(***************************************************************************)
\* the last value the clock takes
LastTick == (MaxTime \div TickStep) * TickStep
Answered200(i) ==
    i \in DOMAIN reqs /\ reqs[i].op = "retrieve" /\ reqs[i].code = StatusOK
RotationOwed(i) ==
    /\ Answered200(i)
    /\ \/ JobsOf(i) = {}
       \/ \E j \in JobsOf(i) : jobs[j].pc # "rotated" /\ jobs[j].wakeAt <= LastTick
RotationWritten(i) ==
    /\ Answered200(i)
    /\ \E j \in JobsOf(i) :
          /\ jobs[j].pc = "rotated"
          /\ \E d \in DocsOf(coll, reqs[i].un) :
                d.password = jobs[j].npw /\ d.last_rotated = jobs[j].updatedTime

C14_RetrieveLeadsToRotation ==
    /\ (\E i \in DOMAIN reqs : RotationOwed(i)) ~> (\A i \in DOMAIN reqs : ~RotationOwed(i))
    /\ [][\A j \in DOMAIN jobs : Applies(j) => RotationWritten(jobs[j].by)']_vars

\* a retrieve answered with the created password, its rotation now written
C14_Witness ==
    \E i \in DOMAIN reqs :
        /\ RotationWritten(i)
        /\ ~RotationOwed(i)
        /\ reqs[i].rpw \notin PasswordsOf(coll, reqs[i].un)
====
